---- MODULE Spec2Model ----
(***************************************************************************)
(* CTAP2 authenticatorMakeCredential, client side                          *)
(* (src/ctap2/commands/make_credentials.rs).                               *)
(*                                                                         *)
(* Two state machines share the variables below.                           *)
(*   Spec      the request value: MakeCredentials::new, the mutators of    *)
(*             PinUvAuthCommand, and the CBOR encoder (wire_format).       *)
(*   SpecResp  handle_response_ctap2 on one response: the status framing,  *)
(*             the visit_map loop of MakeCredentialsResult (one action per *)
(*             match arm) and the end of the decode.                       *)
(*                                                                         *)
(* Option<T> is a sequence of length at most one: None is << >> and        *)
(* Some(x) is <<x>>.                                                       *)
(***************************************************************************)
EXTENDS Integers, Sequences, FiniteSets, TLC

VARIABLES req, out, dev, input, dec, finalized, pc

vars == <<req, out, dev, input, dec, finalized, pc>>

None == << >>

Some(x) == <<x>>

OptBool == {None, Some(FALSE), Some(TRUE)}

(***************************************************************************)
(* Bounds of the model.                                                    *)
(***************************************************************************)
\* longest exclude_list of a request
MaxExclude == 2

\* most entries of a response map
MaxEntries == 3

(***************************************************************************)
(* The request: struct MakeCredentials and the values of its fields.       *)
(***************************************************************************)
ClientDataHashes == {"cdh", "cdh2"}

RelyingParties == {"example.com"}

Users == {None, Some("user")}

PubCredParams == <<"ES256", "RS256">>

ExcludeLists == {[i \in 1..n |-> "cred"] : n \in 0..MaxExclude}

\* struct MakeCredentialsOptions
MakeCredentialsOptions == [resident_key : OptBool, user_verification : OptBool]

\* struct MakeCredentialsExtensions
MakeCredentialsExtensions ==
    [cred_props : OptBool,
     cred_protect : {None, Some("userVerificationOptional")},
     hmac_secret : OptBool,
     min_pin_length : {None, Some(TRUE)}]

\* PinUvAuthToken values a caller may hold; ok tells whether derive succeeds
PinUvAuthTokens ==
    {[protocol |-> 1, key |-> "k1", ok |-> TRUE],
     [protocol |-> 2, key |-> "k2", ok |-> TRUE],
     [protocol |-> 1, key |-> "k3", ok |-> FALSE]}

\* PinUvAuthToken::derive(client_data_hash): the tag binds the token's key
\* to the hash and carries the token's protocol
Derive(token, hash) ==
    [pin_auth |-> <<token.key, hash>>, pin_protocol |-> token.protocol]

EnterpriseAttestations == {None, Some(1)}

\* MakeCredentials::new
New(client_data_hash, rp, user, pub_cred_params, exclude_list, options, extensions) ==
    [client_data_hash |-> client_data_hash,
     rp |-> rp,
     user |-> user,
     pub_cred_params |-> pub_cred_params,
     exclude_list |-> exclude_list,
     extensions |-> extensions,
     options |-> options,
     pin_uv_auth_param |-> None,
     enterprise_attestation |-> None]

\* a has_some that forgets user_verification
has_some_rk_only(options) == options.resident_key # None

\* MakeCredentialsOptions::has_some
has_some(options) ==
    options.resident_key # None \/ options.user_verification # None

\* a has_content that also counts cred_props
has_content_with_cred_props(extensions) ==
    \/ extensions.cred_props # None
    \/ extensions.cred_protect # None
    \/ extensions.hmac_secret # None
    \/ extensions.min_pin_length # None

\* MakeCredentialsExtensions::has_content
has_content(extensions) ==
    \/ extensions.cred_protect # None
    \/ extensions.hmac_secret # None
    \/ extensions.min_pin_length # None

(***************************************************************************)
(* The encoder: impl Serialize for MakeCredentials.  The output is the     *)
(* length handed to serialize_map and the entries written after it, in     *)
(* the order of the serialize_entry calls.                                 *)
(***************************************************************************)
\* an entry of the encoded map; members lists the keys of a nested map
Entry(key, value, members) == [key |-> key, value |-> value, members |-> members]

\* serde's encoding of an Option<T> field: None is written as CBOR null
SerOption(opt, name) == IF opt = None THEN "null" ELSE name

\* #[derive(Serialize)] of MakeCredentialsOptions (skip_serializing_if none)
OptionsMembers(options) ==
    {m \in {"rk", "uv"} :
        \/ m = "rk" /\ options.resident_key # None
        \/ m = "uv" /\ options.user_verification # None}

\* #[derive(Serialize)] of MakeCredentialsExtensions; cred_props is skipped
ExtensionsMembers(extensions) ==
    {m \in {"credProtect", "hmac-secret", "minPinLength"} :
        \/ m = "credProtect" /\ extensions.cred_protect # None
        \/ m = "hmac-secret" /\ extensions.hmac_secret # None
        \/ m = "minPinLength" /\ extensions.min_pin_length # None}

\* the entries counted for pin_uv_auth_param
PinMapLen == 2

\* the entries every request writes
BaseMapLen == 4

\* a map_len that counts one entry for pin_uv_auth_param instead of two
MapLenPinOne(r) ==
    BaseMapLen
    + (IF r.exclude_list # << >> THEN 1 ELSE 0)
    + (IF has_content(r.extensions) THEN 1 ELSE 0)
    + (IF has_some(r.options) THEN 1 ELSE 0)
    + (IF r.pin_uv_auth_param # None THEN 1 ELSE 0)
    + (IF r.enterprise_attestation # None THEN 1 ELSE 0)

\* map_len, computed before the map is opened
MapLen(r) ==
    BaseMapLen
    + (IF r.exclude_list # << >> THEN 1 ELSE 0)
    + (IF has_content(r.extensions) THEN 1 ELSE 0)
    + (IF has_some(r.options) THEN 1 ELSE 0)
    + (IF r.pin_uv_auth_param # None THEN PinMapLen ELSE 0)
    + (IF r.enterprise_attestation # None THEN 1 ELSE 0)

\* the entries of the optional groups, keys 5 to 10
ExcludeEntries(r) ==
    IF r.exclude_list # << >> THEN <<Entry(5, "exclude_list", {})>> ELSE << >>

ExtensionsEntries(r) ==
    IF has_content(r.extensions)
    THEN <<Entry(6, "extensions", ExtensionsMembers(r.extensions))>>
    ELSE << >>

OptionsEntries(r) ==
    IF has_some(r.options)
    THEN <<Entry(7, "options", OptionsMembers(r.options))>>
    ELSE << >>

PinEntries(r) ==
    IF r.pin_uv_auth_param # None
    THEN <<Entry(8, "pin_uv_auth_param", {}), Entry(9, "pin_protocol", {})>>
    ELSE << >>

EnterpriseEntries(r) ==
    IF r.enterprise_attestation # None
    THEN <<Entry(10, "enterprise_attestation", {})>>
    ELSE << >>

\* the serialize_entry calls with options written before extensions
MapEntriesOptionsFirst(r) ==
    <<Entry(1, "client_data_hash", {}),
      Entry(2, "rp", {}),
      Entry(3, SerOption(r.user, "user"), {}),
      Entry(4, "pub_cred_params", {})>>
    \o ExcludeEntries(r)
    \o OptionsEntries(r)
    \o ExtensionsEntries(r)
    \o PinEntries(r)
    \o EnterpriseEntries(r)

\* the serialize_entry calls, in order
MapEntries(r) ==
    <<Entry(1, "client_data_hash", {}),
      Entry(2, "rp", {}),
      Entry(3, SerOption(r.user, "user"), {}),
      Entry(4, "pub_cred_params", {})>>
    \o ExcludeEntries(r)
    \o ExtensionsEntries(r)
    \o OptionsEntries(r)
    \o PinEntries(r)
    \o EnterpriseEntries(r)

\* Serialize::serialize
Serialize(r) == [declared |-> MapLen(r), entries |-> MapEntries(r)]

(***************************************************************************)
(* RequestCtap1::ctap1_format: the register APDU of the legacy protocol.   *)
(***************************************************************************)
\* PARAMETER_SIZE: the length of a client data hash and of an rp id hash
ParameterSize == 32

\* U2F_REGISTER
U2fRegister == 1

\* U2F_REQUEST_USER_PRESENCE
U2fRequestUserPresence == 3

\* self.client_data_hash.as_ref()
ClientDataHashBytes(client_data_hash) ==
    [i \in 1..ParameterSize |-> IF client_data_hash = "cdh" THEN 117 ELSE 118]

\* self.rp.hash().as_ref()
RpIdHashBytes(rp) ==
    [i \in 1..ParameterSize |-> IF rp = "example.com" THEN 163 ELSE 164]

\* CTAP1RequestAPDU::serialize(ins, p1, data): CLA, INS, P1, P2, a length
\* of three bytes, the data, and two zero bytes for the response length
Ctap1RequestApduSerialize(ins, p1, data) ==
    IF Len(data) > 65535 THEN [ok |-> FALSE, bytes |-> << >>]
    ELSE [ok |-> TRUE,
          bytes |-> <<0, ins, p1, 0,
                      Len(data) \div 65536, (Len(data) \div 256) % 256,
                      Len(data) % 256>>
                    \o data \o <<0, 0>>]

\* ctap1_format with the two hashes in the other order
Ctap1FormatRpFirst(r) ==
    LET flags == U2fRequestUserPresence
        register_data == RpIdHashBytes(r.rp) \o ClientDataHashBytes(r.client_data_hash)
        cmd == U2fRegister
        apdu == Ctap1RequestApduSerialize(cmd, flags, register_data)
    IN  IF apdu.ok THEN [res |-> "Ok", apdu |-> apdu.bytes]
        ELSE [res |-> "Err", apdu |-> << >>]

\* ctap1_format that refuses a request with an exclusion list or a tag
Ctap1FormatRefusesExtras(r) ==
    LET flags == U2fRequestUserPresence
        register_data == ClientDataHashBytes(r.client_data_hash) \o RpIdHashBytes(r.rp)
        cmd == U2fRegister
        apdu == Ctap1RequestApduSerialize(cmd, flags, register_data)
    IN  IF apdu.ok /\ r.exclude_list = << >> /\ r.pin_uv_auth_param = None
        THEN [res |-> "Ok", apdu |-> apdu.bytes]
        ELSE [res |-> "Err", apdu |-> << >>]

\* ctap1_format
Ctap1Format(r) ==
    LET flags == U2fRequestUserPresence
        register_data == ClientDataHashBytes(r.client_data_hash) \o RpIdHashBytes(r.rp)
        cmd == U2fRegister
        apdu == Ctap1RequestApduSerialize(cmd, flags, register_data)
    IN  IF apdu.ok THEN [res |-> "Ok", apdu |-> apdu.bytes]
        ELSE [res |-> "Err", apdu |-> << >>]

(***************************************************************************)
(* Spec: the life of a request.                                            *)
(***************************************************************************)
NoDev == [info |-> None]

NoInput == [status |-> None, body |-> None]

NoDec == [len |-> 0, rest |-> << >>, format |-> None, auth_data |-> None,
          att_stmt |-> None, read |-> << >>]

Init ==
    /\ \E h \in ClientDataHashes, rp \in RelyingParties, u \in Users,
          ex \in ExcludeLists, o \in MakeCredentialsOptions,
          e \in MakeCredentialsExtensions :
            req = New(h, rp, u, PubCredParams, ex, o, e)
    /\ out = [op |-> "new"]
    /\ dev = NoDev
    /\ input = NoInput
    /\ dec = NoDec
    /\ finalized = 0
    /\ pc = "request"

\* RequestCtap2::wire_format
WireFormat ==
    /\ pc = "request"
    /\ out' = [op |-> "wire_format", res |-> "Ok", wire |-> Serialize(req)]
    /\ UNCHANGED <<req, dev, input, dec, finalized, pc>>

\* set_pin_uv_auth_param that writes a tag but never clears one
SetPinUvAuthParamKeepsOnNone ==
    /\ pc = "request"
    /\ \E t \in {None} \cup {Some(k) : k \in PinUvAuthTokens} :
         IF t # None /\ ~t[1].ok
         THEN /\ out' = [op |-> "set_pin_uv_auth_param", res |-> "Crypto", token |-> t]
              /\ UNCHANGED req
         ELSE /\ req' = [req EXCEPT !.pin_uv_auth_param =
                            IF t = None THEN @
                            ELSE Some(Derive(t[1], req.client_data_hash))]
              /\ out' = [op |-> "set_pin_uv_auth_param", res |-> "Ok", token |-> t]
    /\ UNCHANGED <<dev, input, dec, finalized, pc>>

\* set_pin_uv_auth_param that clears the field before it derives
SetPinUvAuthParamClearsFirst ==
    /\ pc = "request"
    /\ \E t \in {None} \cup {Some(k) : k \in PinUvAuthTokens} :
         IF t # None /\ ~t[1].ok
         THEN /\ out' = [op |-> "set_pin_uv_auth_param", res |-> "Crypto", token |-> t]
              /\ req' = [req EXCEPT !.pin_uv_auth_param = None]
         ELSE /\ req' = [req EXCEPT !.pin_uv_auth_param =
                            IF t = None THEN None
                            ELSE Some(Derive(t[1], req.client_data_hash))]
              /\ out' = [op |-> "set_pin_uv_auth_param", res |-> "Ok", token |-> t]
    /\ UNCHANGED <<dev, input, dec, finalized, pc>>

\* PinUvAuthCommand::set_pin_uv_auth_param; out keeps the token given
SetPinUvAuthParam ==
    /\ pc = "request"
    /\ \E t \in {None} \cup {Some(k) : k \in PinUvAuthTokens} :
         IF t # None /\ ~t[1].ok
         THEN /\ out' = [op |-> "set_pin_uv_auth_param", res |-> "Crypto", token |-> t]
              /\ UNCHANGED req
         ELSE /\ req' = [req EXCEPT !.pin_uv_auth_param =
                            IF t = None THEN None
                            ELSE Some(Derive(t[1], req.client_data_hash))]
              /\ out' = [op |-> "set_pin_uv_auth_param", res |-> "Ok", token |-> t]
    /\ UNCHANGED <<dev, input, dec, finalized, pc>>

\* RequestCtap1::ctap1_format
Ctap1FormatCall ==
    /\ pc = "request"
    /\ out' = [op |-> "ctap1_format", res |-> Ctap1Format(req).res,
               apdu |-> Ctap1Format(req).apdu]
    /\ UNCHANGED <<req, dev, input, dec, finalized, pc>>

\* PinUvAuthCommand::set_uv_option
SetUvOption ==
    /\ pc = "request"
    /\ \E uv \in OptBool :
         req' = [req EXCEPT !.options.user_verification = uv]
    /\ out' = [op |-> "set_uv_option"]
    /\ UNCHANGED <<dev, input, dec, finalized, pc>>

\* a caller's write of the public field enterprise_attestation
SetEnterpriseAttestation ==
    /\ pc = "request"
    /\ \E ea \in EnterpriseAttestations :
         req' = [req EXCEPT !.enterprise_attestation = ea]
    /\ out' = [op |-> "set_enterprise_attestation"]
    /\ UNCHANGED <<dev, input, dec, finalized, pc>>

Next ==
    \/ WireFormat
    \/ Ctap1FormatCall
    \/ SetPinUvAuthParam
    \/ SetUvOption
    \/ SetEnterpriseAttestation

Spec == Init /\ [][Next]_vars

(***************************************************************************)
(* The response of the modern protocol.  A response is the status byte     *)
(* and the bytes after it; the body is a CBOR map: the entry count of its  *)
(* header (len) and the entries that follow.  A body whose header counts   *)
(* one entry more than follow is a truncated response.  The decoder reads  *)
(* the body as the stream of data items Items(body), a key and a value per *)
(* entry.                                                                  *)
(***************************************************************************)
IntItem(k) == [t |-> "int", n |-> k, s |-> ""]

TextItem(str) == [t |-> "text", n |-> 0, s |-> str]

BytesItem(str) == [t |-> "bytes", n |-> 0, s |-> str]

\* a nested map: its number of entries and what they are
MapItem(n, shape) == [t |-> "map", n |-> n, s |-> shape]

Formats == {"none", "packed", "fido-u2f", "tpm"}

\* attStmt values: {}, {null: null}, a packed statement, a fido-u2f statement
AttStmtValues ==
    {MapItem(0, "empty"), MapItem(1, "nulls"),
     MapItem(3, "packed"), MapItem(2, "fido-u2f")}

FmtEntries == {<<IntItem(1), TextItem(f)>> : f \in Formats}

AuthDataEntries == {<<IntItem(2), BytesItem("authData")>>}

AttStmtEntries == {<<IntItem(3), v>> : v \in AttStmtValues}

\* entries under a key the decoder does not know
UnknownEntries == {<<IntItem(4), IntItem(7)>>, <<IntItem(4), TextItem("x")>>}

ResponseEntries ==
    FmtEntries \cup AuthDataEntries \cup AttStmtEntries \cup UnknownEntries

EntrySeqs(max) == UNION {[1..n -> ResponseEntries] : n \in 0..max}

Bodies(max) ==
    {[len |-> Len(es) + extra, entries |-> es] :
        es \in EntrySeqs(max), extra \in {0, 1}}

\* the status bytes: success, and two error codes
StatusBytes == {0, 1, 46}

\* input: &[u8]; status is input[0] and body is input[1..], if any
Inputs ==
    {[status |-> None, body |-> None]}
    \cup {[status |-> Some(b), body |-> None] : b \in StatusBytes}
    \cup {[status |-> Some(b), body |-> Some(m)] :
            b \in StatusBytes, m \in Bodies(MaxEntries)}

RECURSIVE Flatten(_)
\* the data items of a sequence of entries, in wire order
Flatten(es) ==
    IF es = << >> THEN << >> ELSE <<es[1][1], es[1][2]>> \o Flatten(Tail(es))

Items(body) == Flatten(body.entries)

\* a body serde_cbor parses as one complete value with nothing after it
WellFormed(body) == body.len = Len(body.entries)

\* StatusCode::is_ok
is_ok(status) == status = 0

(***************************************************************************)
(* Outcomes of a handler.                                                  *)
(***************************************************************************)
NoOut == [res |-> "none", kind |-> "", msg |-> "", status |-> None,
         data |-> None, result |-> None]

\* Err(HIDError::Command(CommandError::InputTooSmall))
InputTooSmall == [NoOut EXCEPT !.res = "Err", !.kind = "InputTooSmall"]

\* Err(HIDError::Command(CommandError::StatusCode(status, data)))
StatusCodeErr(status, data) ==
    [NoOut EXCEPT !.res = "Err", !.kind = "StatusCode",
                  !.status = Some(status), !.data = data]

\* Err(HIDError::Command(CommandError::Deserializing(e)))
Deserializing(msg) == [NoOut EXCEPT !.res = "Err", !.kind = "Deserializing", !.msg = msg]

OkResult(result) == [NoOut EXCEPT !.res = "Ok", !.result = Some(result)]

(***************************************************************************)
(* MakeCredentials::finalize_result.                                       *)
(***************************************************************************)
\* the hmac-secret extension in the bytes of an authenticator data: absent,
\* Confirmed(flag), or Secret(..)
HmacSecretOf(bytes) ==
    CASE bytes = "authData,hmac-secret=true" ->
            Some([confirmed |-> TRUE, flag |-> TRUE])
      [] bytes = "authData,hmac-secret=false" ->
            Some([confirmed |-> TRUE, flag |-> FALSE])
      [] bytes = "authData,hmac-secret=secret" ->
            Some([confirmed |-> FALSE, flag |-> FALSE])
      [] OTHER -> None

\* the AuthenticatorData decoded from the bytes of a response
AuthenticatorData(bytes) ==
    [raw_data |-> bytes, extensions |-> [hmac_secret |-> HmacSecretOf(bytes)]]

\* result.att_obj.auth_data.extensions.hmac_secret
AuthDataHmacSecret(auth_data) == auth_data.extensions.hmac_secret

\* rk_uncertain without the look at the request
RkUncertainAnyRequest(r, info) ==
    LET dev_supports_rk == IF info = None THEN FALSE ELSE info[1].resident_key
        max_supported_version == IF info = None THEN "U2F_V2"
                                 ELSE info[1].max_supported_version
    IN  max_supported_version = "FIDO_2_0" /\ dev_supports_rk

\* rk_uncertain
RkUncertain(r, info) ==
    LET dev_supports_rk == IF info = None THEN FALSE ELSE info[1].resident_key
        requested_rk == IF r.options.resident_key = None THEN FALSE
                        ELSE r.options.resident_key[1]
        max_supported_version == IF info = None THEN "U2F_V2"
                                 ELSE info[1].max_supported_version
    IN  max_supported_version = "FIDO_2_0" /\ dev_supports_rk /\ ~requested_rk

\* finalize_result with no arm for a missing info: the attachment stays
FinalizeResultKeepsAttachment(r, d, result) ==
    LET info == d.info
        requested_rk == IF r.options.resident_key = None THEN FALSE
                        ELSE r.options.resident_key[1]
        attachment == IF info = None THEN result.attachment
                      ELSE IF info[1].platform_device THEN "Platform"
                      ELSE "CrossPlatform"
        cred_props == IF r.extensions.cred_props = Some(TRUE) /\ ~RkUncertain(r, info)
                      THEN Some([rk |-> requested_rk])
                      ELSE result.extensions.cred_props
        hmac == AuthDataHmacSecret(result.att_obj.auth_data)
        hmac_create_secret ==
            IF r.extensions.hmac_secret = Some(TRUE) /\ hmac # None
               /\ hmac[1].confirmed
            THEN Some(hmac[1].flag)
            ELSE result.extensions.hmac_create_secret
    IN  [result EXCEPT !.attachment = attachment,
                       !.extensions = [cred_props |-> cred_props,
                                       hmac_create_secret |-> hmac_create_secret]]

\* finalize_result without the look at extensions.hmac_secret of the request
FinalizeResultHmacUnrequested(r, d, result) ==
    LET info == d.info
        requested_rk == IF r.options.resident_key = None THEN FALSE
                        ELSE r.options.resident_key[1]
        attachment == IF info = None THEN "Unknown"
                      ELSE IF info[1].platform_device THEN "Platform"
                      ELSE "CrossPlatform"
        cred_props == IF r.extensions.cred_props = Some(TRUE) /\ ~RkUncertain(r, info)
                      THEN Some([rk |-> requested_rk])
                      ELSE result.extensions.cred_props
        hmac == AuthDataHmacSecret(result.att_obj.auth_data)
        hmac_create_secret ==
            IF hmac # None
               /\ hmac[1].confirmed
            THEN Some(hmac[1].flag)
            ELSE result.extensions.hmac_create_secret
    IN  [result EXCEPT !.attachment = attachment,
                       !.extensions = [cred_props |-> cred_props,
                                       hmac_create_secret |-> hmac_create_secret]]

\* finalize_result that clears a cred_props output it finds set
FinalizeResultToggle(r, d, result) ==
    LET info == d.info
        requested_rk == IF r.options.resident_key = None THEN FALSE
                        ELSE r.options.resident_key[1]
        attachment == IF info = None THEN "Unknown"
                      ELSE IF info[1].platform_device THEN "Platform"
                      ELSE "CrossPlatform"
        cred_props == IF r.extensions.cred_props = Some(TRUE) /\ ~RkUncertain(r, info)
                      THEN (IF result.extensions.cred_props = None
                            THEN Some([rk |-> requested_rk]) ELSE None)
                      ELSE result.extensions.cred_props
        hmac == AuthDataHmacSecret(result.att_obj.auth_data)
        hmac_create_secret ==
            IF r.extensions.hmac_secret = Some(TRUE) /\ hmac # None
               /\ hmac[1].confirmed
            THEN Some(hmac[1].flag)
            ELSE result.extensions.hmac_create_secret
    IN  [result EXCEPT !.attachment = attachment,
                       !.extensions = [cred_props |-> cred_props,
                                       hmac_create_secret |-> hmac_create_secret]]

\* finalize_result(dev, result)
FinalizeResult(r, d, result) ==
    LET info == d.info
        requested_rk == IF r.options.resident_key = None THEN FALSE
                        ELSE r.options.resident_key[1]
        attachment == IF info = None THEN "Unknown"
                      ELSE IF info[1].platform_device THEN "Platform"
                      ELSE "CrossPlatform"
        cred_props == IF r.extensions.cred_props = Some(TRUE) /\ ~RkUncertain(r, info)
                      THEN Some([rk |-> requested_rk])
                      ELSE result.extensions.cred_props
        hmac == AuthDataHmacSecret(result.att_obj.auth_data)
        hmac_create_secret ==
            IF r.extensions.hmac_secret = Some(TRUE) /\ hmac # None
               /\ hmac[1].confirmed
            THEN Some(hmac[1].flag)
            ELSE result.extensions.hmac_create_secret
    IN  [result EXCEPT !.attachment = attachment,
                       !.extensions = [cred_props |-> cred_props,
                                       hmac_create_secret |-> hmac_create_secret]]

(***************************************************************************)
(* MakeCredentials::can_skip_user_verification.                            *)
(***************************************************************************)
\* UserVerificationRequirement
UvRequirements == {"Discouraged", "Preferred", "Required"}

\* the four options of the AuthenticatorInfo the method reads
PolicyInfos ==
    [options : [user_verification : OptBool, client_pin : OptBool,
                make_cred_uv_not_rqd : OptBool, always_uv : OptBool]]

\* can_skip_user_verification without the look at always_uv
CanSkipWithoutAlwaysUv(r, info, uv_req) ==
    LET supports_uv == info.options.user_verification = Some(TRUE)
        pin_configured == info.options.client_pin = Some(TRUE)
        device_protected == supports_uv \/ pin_configured
        make_cred_uv_not_required ==
            /\ info.options.make_cred_uv_not_rqd = Some(TRUE)
            /\ r.options.resident_key # Some(TRUE)
            /\ uv_req = "Discouraged"
    IN  [self |-> r, value |-> ~device_protected \/ make_cred_uv_not_required]

\* can_skip_user_verification(&mut self, info, uv_req): the request after
\* the call and the value returned
CanSkipUserVerification(r, info, uv_req) ==
    LET supports_uv == info.options.user_verification = Some(TRUE)
        pin_configured == info.options.client_pin = Some(TRUE)
        device_protected == supports_uv \/ pin_configured
        make_cred_uv_not_required ==
            /\ info.options.make_cred_uv_not_rqd = Some(TRUE)
            /\ r.options.resident_key # Some(TRUE)
            /\ uv_req = "Discouraged"
        always_uv == info.options.always_uv = Some(TRUE)
    IN  [self |-> r,
         value |-> ~always_uv /\ (~device_protected \/ make_cred_uv_not_required)]

(***************************************************************************)
(* Deserialize for MakeCredentialsResult: visit_map.  dec is the state of  *)
(* the visitor and of the MapAccess it reads from: len, the entries the    *)
(* map header still counts; rest, the data items not yet read; the three   *)
(* locals; and read, the keys next_key has returned so far.                *)
(***************************************************************************)
StartDec(body) ==
    [len |-> body.len, rest |-> Items(body), format |-> None,
     auth_data |-> None, att_stmt |-> None, read |-> << >>]

\* the outcome of one step of the visitor: an error message or the next state
StepErr(d, msg) == [err |-> msg, dec |-> d]

StepOk(d) == [err |-> "", dec |-> d]

\* map.next_key(): None at the end of the map, else the next data item read
\* as an integer
NextKey(d) ==
    IF d.len = 0 THEN [r |-> "None", key |-> 0, msg |-> ""]
    ELSE IF d.rest = << >> THEN [r |-> "Err", key |-> 0, msg |-> "eof"]
    ELSE IF Head(d.rest).t # "int" THEN [r |-> "Err", key |-> 0, msg |-> "invalid_type"]
    ELSE [r |-> "Some", key |-> Head(d.rest).n, msg |-> ""]

\* the MapAccess after next_key returned key
AfterKey(d) ==
    [d EXCEPT !.len = @ - 1, !.rest = Tail(@), !.read = Append(@, Head(d.rest).n)]

\* map.next_value() for a value of type t: the next data item
NextValue(d, t) ==
    IF d.rest = << >> THEN "eof"
    ELSE IF Head(d.rest).t # t THEN "invalid_type"
    ELSE ""

\* the typed decode of an attStmt value for a known format
TypedShape(format, item) == item.s = format

\* arm 1 without the duplicate check
FmtArmOverwrite(d) ==
    IF NextValue(d, "text") # "" THEN StepErr(d, NextValue(d, "text"))
    ELSE StepOk([d EXCEPT !.format = Some(Head(d.rest).s), !.rest = Tail(@)])

\* arm 1 => fmt
FmtArm(d) ==
    IF d.format # None THEN StepErr(d, "duplicate_field fmt (0x01)")
    ELSE IF NextValue(d, "text") # "" THEN StepErr(d, NextValue(d, "text"))
    ELSE StepOk([d EXCEPT !.format = Some(Head(d.rest).s), !.rest = Tail(@)])

\* arm 2 => authData
AuthDataArm(d) ==
    IF d.auth_data # None THEN StepErr(d, "duplicate_field authData (0x02)")
    ELSE IF NextValue(d, "bytes") # "" THEN StepErr(d, NextValue(d, "bytes"))
    ELSE StepOk([d EXCEPT !.auth_data = Some(AuthenticatorData(Head(d.rest).s)),
                          !.rest = Tail(@)])

\* format "none" without the is_empty check
NoneArmAnyMap(d) ==
    IF NextValue(d, "map") # "" THEN StepErr(d, NextValue(d, "map"))
    ELSE IF Head(d.rest).s \notin {"empty", "nulls"} THEN StepErr(d, "invalid_type")
    ELSE StepOk([d EXCEPT !.att_stmt = Some("None"), !.rest = Tail(@)])

\* format "none": the value is read as a BTreeMap<(), ()>, which a map of
\* anything but nulls is not, and must be empty
NoneArm(d) ==
    IF NextValue(d, "map") # "" THEN StepErr(d, NextValue(d, "map"))
    ELSE IF Head(d.rest).s \notin {"empty", "nulls"} THEN StepErr(d, "invalid_type")
    ELSE IF Head(d.rest).n # 0 THEN StepErr(d, "invalid_value: the empty map")
    ELSE StepOk([d EXCEPT !.att_stmt = Some("None"), !.rest = Tail(@)])

\* format "packed" or "fido-u2f": the value is read as the format's struct
TypedArm(d, variant) ==
    IF NextValue(d, "map") # "" THEN StepErr(d, NextValue(d, "map"))
    ELSE IF ~TypedShape(d.format[1], Head(d.rest)) THEN StepErr(d, "invalid_type")
    ELSE StepOk([d EXCEPT !.att_stmt = Some(variant), !.rest = Tail(@)])

\* a match whose last arm reads an unknown format as "none"
AttStmtOfFormatFallThrough(d) ==
    CASE d.format[1] = "packed" -> TypedArm(d, "Packed")
      [] d.format[1] = "fido-u2f" -> TypedArm(d, "FidoU2F")
      [] OTHER -> NoneArm(d)

\* the match on the format string
AttStmtOfFormat(d) ==
    CASE d.format[1] = "none" -> NoneArm(d)
      [] d.format[1] = "packed" -> TypedArm(d, "Packed")
      [] d.format[1] = "fido-u2f" -> TypedArm(d, "FidoU2F")
      [] OTHER -> StepErr(d, "unknown attestation statement format")

\* arm 3 with a missing format read as "none"
AttStmtArmDefaultFormat(d) ==
    IF d.att_stmt # None THEN StepErr(d, "duplicate_field attStmt (0x03)")
    ELSE IF d.format = None THEN NoneArm(d)
    ELSE AttStmtOfFormat(d)

\* arm 3 => attStmt
AttStmtArm(d) ==
    IF d.format = None THEN StepErr(d, "missing_field fmt (0x01)")
    ELSE IF d.att_stmt # None THEN StepErr(d, "duplicate_field attStmt (0x03)")
    ELSE AttStmtOfFormat(d)

\* arm _ => continue: the value of the entry is not read
OtherArm(d) == StepOk(d)

\* one iteration of the while loop, next_key having returned key
Arm(key, d) ==
    CASE key = 1 -> FmtArm(d)
      [] key = 2 -> AuthDataArm(d)
      [] key = 3 -> AttStmtArm(d)
      [] OTHER -> OtherArm(d)

\* an end of the loop that defaults a missing attStmt to None
VisitMapEndDefault(st) ==
    IF st.auth_data = None THEN Deserializing("found no authData (0x02)")
    ELSE IF st.rest # << >> THEN Deserializing("trailing_data")
    ELSE OkResult(
            [att_obj |-> [auth_data |-> st.auth_data[1],
                          att_stmt |-> IF st.att_stmt = None THEN "None"
                                       ELSE st.att_stmt[1]],
             attachment |-> "Unknown",
             extensions |-> [cred_props |-> None, hmac_create_secret |-> None]])

\* after the loop: the two required fields and the result; then
\* serde_cbor's check that the input ends where the map ends
VisitMapEnd(st) ==
    IF st.auth_data = None THEN Deserializing("found no authData (0x02)")
    ELSE IF st.att_stmt = None THEN Deserializing("found no attStmt (0x03)")
    ELSE IF st.rest # << >> THEN Deserializing("trailing_data")
    ELSE OkResult(
            [att_obj |-> [auth_data |-> st.auth_data[1], att_stmt |-> st.att_stmt[1]],
             attachment |-> "Unknown",
             extensions |-> [cred_props |-> None, hmac_create_secret |-> None]])

RECURSIVE VisitMap(_)
\* from_slice::<MakeCredentialsResult>: the loop run to its end
VisitMap(st) ==
    LET k == NextKey(st)
    IN  IF k.r = "None" THEN VisitMapEnd(st)
        ELSE IF k.r = "Err" THEN Deserializing(k.msg)
        ELSE LET s == Arm(k.key, AfterKey(st))
             IN  IF s.err # "" THEN Deserializing(s.err)
                 ELSE VisitMap(s.dec)

(***************************************************************************)
(* RequestCtap2::handle_response_ctap2.                                    *)
(***************************************************************************)
\* an else branch that discards the decoded value
ErrorBodyDropsData(status, body) ==
    IF WellFormed(body) THEN StatusCodeErr(status, None)
    ELSE Deserializing(IF body.len > Len(body.entries) THEN "eof" ELSE "trailing_data")

\* the else branch: a body after an error status
ErrorBody(status, body) ==
    IF WellFormed(body) THEN StatusCodeErr(status, Some(body))
    ELSE Deserializing(IF body.len > Len(body.entries) THEN "eof" ELSE "trailing_data")

\* the status-only return taken without looking at the status
FramingStatusUnchecked(inp) ==
    IF inp.status = None THEN InputTooSmall
    ELSE IF inp.body = None THEN StatusCodeErr(inp.status[1], None)
    ELSE IF is_ok(inp.status[1]) THEN NoOut
    ELSE ErrorBody(inp.status[1], inp.body[1])

\* the returns before any decoding; NoOut when the body is to be decoded
Framing(inp) ==
    IF inp.status = None THEN InputTooSmall
    ELSE IF inp.body = None
         THEN IF is_ok(inp.status[1]) THEN InputTooSmall
              ELSE StatusCodeErr(inp.status[1], None)
    ELSE IF is_ok(inp.status[1]) THEN NoOut
    ELSE ErrorBody(inp.status[1], inp.body[1])

\* the success branch once the body is decoded
Finalized(r, d, decoded) ==
    IF decoded.res = "Ok" THEN OkResult(FinalizeResult(r, d, decoded.result[1]))
    ELSE decoded

\* the whole handler, as a function of its arguments
HandleResponseCtap2Of(r, d, inp) ==
    IF Framing(inp) # NoOut THEN Framing(inp)
    ELSE Finalized(r, d, VisitMap(StartDec(inp.body[1])))

(***************************************************************************)
(* SpecResp: one call of handle_response_ctap2.                            *)
(***************************************************************************)
\* the requests and devices of the responses handled
RespRequests ==
    {New("cdh", "example.com", Some("user"), PubCredParams, << >>,
         [resident_key |-> None, user_verification |-> None],
         [cred_props |-> cp, cred_protect |-> None, hmac_secret |-> None,
          min_pin_length |-> None]) : cp \in {None, Some(TRUE)}}

RespDevices ==
    {[info |-> None],
     [info |-> Some([platform_device |-> TRUE, resident_key |-> FALSE,
                     max_supported_version |-> "FIDO_2_0"])]}

InitResp ==
    /\ req \in RespRequests
    /\ dev \in RespDevices
    /\ out = NoOut
    /\ input = NoInput
    /\ dec = NoDec
    /\ finalized = 0
    /\ pc = "idle"

\* entry of the handler, up to the call of from_slice on a success status
Receive ==
    /\ pc = "idle"
    /\ \E inp \in Inputs :
         /\ input' = inp
         /\ IF Framing(inp) # NoOut
            THEN /\ out' = Framing(inp)
                 /\ pc' = "done"
                 /\ UNCHANGED dec
            ELSE /\ dec' = StartDec(inp.body[1])
                 /\ pc' = "visit_map"
                 /\ UNCHANGED out
    /\ UNCHANGED <<req, dev, finalized>>

\* the effect of one arm on the handler
TakeArm(key) ==
    LET s == Arm(key, AfterKey(dec))
    IN  /\ dec' = s.dec
        /\ IF s.err # ""
           THEN out' = Deserializing(s.err) /\ pc' = "done"
           ELSE UNCHANGED <<out, pc>>
        /\ UNCHANGED <<req, dev, input, finalized>>

\* while let Some(key) = map.next_key()? { match key { 1 => .. } }
VisitFmt ==
    /\ pc = "visit_map"
    /\ NextKey(dec).r = "Some" /\ NextKey(dec).key = 1
    /\ TakeArm(1)

\* match key { 2 => .. }
VisitAuthData ==
    /\ pc = "visit_map"
    /\ NextKey(dec).r = "Some" /\ NextKey(dec).key = 2
    /\ TakeArm(2)

\* match key { 3 => .. }
VisitAttStmt ==
    /\ pc = "visit_map"
    /\ NextKey(dec).r = "Some" /\ NextKey(dec).key = 3
    /\ TakeArm(3)

\* match key { _ => continue }
VisitOther ==
    /\ pc = "visit_map"
    /\ NextKey(dec).r = "Some" /\ NextKey(dec).key \notin {1, 2, 3}
    /\ TakeArm(NextKey(dec).key)

\* map.next_key()? fails
NextKeyFails ==
    /\ pc = "visit_map"
    /\ NextKey(dec).r = "Err"
    /\ out' = Deserializing(NextKey(dec).msg)
    /\ pc' = "done"
    /\ UNCHANGED <<req, dev, input, dec, finalized>>

\* map.next_key()? returns None: the end of visit_map and of from_slice
EndOfMap ==
    /\ pc = "visit_map"
    /\ NextKey(dec).r = "None"
    /\ out' = VisitMapEnd(dec)
    /\ pc' = IF VisitMapEnd(dec).res = "Ok" THEN "finalize" ELSE "done"
    /\ UNCHANGED <<req, dev, input, dec, finalized>>

\* self.finalize_result(dev, &mut output); Ok(output)
Finalize ==
    /\ pc = "finalize"
    /\ out' = OkResult(FinalizeResult(req, dev, out.result[1]))
    /\ finalized' = finalized + 1
    /\ pc' = "done"
    /\ UNCHANGED <<req, dev, input, dec>>

NextResp ==
    \/ Receive
    \/ VisitFmt
    \/ VisitAuthData
    \/ VisitAttStmt
    \/ VisitOther
    \/ NextKeyFails
    \/ EndOfMap
    \/ Finalize

SpecResp == InitResp /\ [][NextResp]_vars

(***************************************************************************)
(* MakeCredentialsResult::from_ctap1: the legacy registration response.    *)
(* An input is a sequence of bytes; a Cursor is the input and a position.  *)
(***************************************************************************)
\* the reserved first byte of a registration response
Magic == 5

\* let mut public_key = [0u8; 65]
PublicKeyLen == 65

\* the largest credential id length byte of the inputs
MaxCredentialId == 2

\* the first bytes the inputs start with: the marker and two others
FirstBytes == {Magic, 0, 4}

\* a public key of 65 bytes that starts with the given byte
PublicKey(first) == [i \in 1..PublicKeyLen |-> IF i = 1 THEN first ELSE 17]

\* credential ids of n bytes
CredentialId(n) == [i \in 1..n |-> 200 + i]

\* what follows the credential id: a certificate of four bytes and a
\* signature of two, the certificate alone, and bytes that are no certificate
CertAndSigs == {<<48, 2, 9, 9, 71, 72>>, <<48, 2, 9, 9>>, <<7, 7, 7, 7>>}

\* whole registration responses
Registrations ==
    {<<m>> \o PublicKey(k) \o <<n>> \o CredentialId(n) \o t :
        m \in FirstBytes, k \in {4, 2}, n \in 0..MaxCredentialId, t \in CertAndSigs}

\* the inputs: every prefix of a registration response, the empty one included
Ctap1Inputs == UNION {{SubSeq(r, 1, k) : k \in 0..Len(r)} : r \in Registrations}

\* read_byte(&mut data) at position pos
ReadByte(data, pos) ==
    IF pos < Len(data) THEN [ok |-> TRUE, byte |-> data[pos + 1]]
    ELSE [ok |-> FALSE, byte |-> 0]

\* data.read_exact(&mut buf) for a buffer of n bytes at position pos
ReadExact(data, pos, n) ==
    IF pos + n <= Len(data) THEN [ok |-> TRUE, bytes |-> SubSeq(data, pos + 1, pos + n)]
    ELSE [ok |-> FALSE, bytes |-> << >>]

\* parse_u2f_der_certificate: a DER SEQUENCE header gives the end of the
\* certificate, the signature is what remains
ParseU2fDerCertificate(bytes) ==
    LET fail == [ok |-> FALSE, certificate |-> << >>, signature |-> << >>]
        end == IF bytes[2] < 128 THEN 2 + bytes[2]
               ELSE IF bytes[2] = 129 /\ bytes[3] >= 128 THEN 3 + bytes[3]
               ELSE IF bytes[2] = 130 /\ bytes[3] # 0 THEN 4 + 256 * bytes[3] + bytes[4]
               ELSE 0
    IN  IF Len(bytes) < 4 THEN fail
        ELSE IF bytes[1] # 48 THEN fail
        ELSE IF end = 0 \/ Len(bytes) < end THEN fail
        ELSE [ok |-> TRUE, certificate |-> SubSeq(bytes, 1, end),
              signature |-> SubSeq(bytes, end + 1, Len(bytes))]

\* COSEEC2Key::from_sec1_uncompressed(Curve::SECP256R1, &public_key)
FromSec1Uncompressed(key) ==
    IF Len(key) # PublicKeyLen \/ key[1] # 4
    THEN [ok |-> FALSE, x |-> << >>, y |-> << >>]
    ELSE [ok |-> TRUE, x |-> SubSeq(key, 2, 33), y |-> SubSeq(key, 34, 65)]

\* self.rp.hash()
RpIdHash(rp) == <<"sha256", rp>>

\* AAGuid::default()
AAGuidDefault == [i \in 1..16 |-> 0]

\* the Default of the extensions of an authenticator data
AuthDataExtensionsDefault ==
    [cred_protect |-> None, hmac_secret |-> None, min_pin_length |-> None]

\* the error of a first byte that is not the marker
MagicMismatch(magic_num) ==
    Deserializing("invalid_value: integer " \o ToString(magic_num)
                  \o ", expected 0x05")

\* a result whose raw_data leaves out the marker byte
Ctap1ResultRawTail(inp, rp_id_hash, credential_id, cert_and_sig, ec2_key) ==
    [att_obj |->
        [auth_data |->
            [rp_id_hash |-> rp_id_hash,
             flags |-> {"USER_PRESENT", "ATTESTED"},
             counter |-> 0,
             credential_data |->
                Some([aaguid |-> AAGuidDefault,
                      credential_id |-> credential_id,
                      credential_public_key |->
                         [alg |-> "ES256", kty |-> "EC2", curve |-> "SECP256R1",
                          x |-> ec2_key.x, y |-> ec2_key.y]]),
             extensions |-> AuthDataExtensionsDefault,
             raw_data |-> Tail(inp)],
         att_stmt |-> [variant |-> "FidoU2F",
                       certificate |-> cert_and_sig.certificate,
                       signature |-> cert_and_sig.signature]],
     attachment |-> "Unknown",
     extensions |-> [cred_props |-> None, hmac_create_secret |-> None]]

\* the value built once every part is read
Ctap1Result(inp, rp_id_hash, credential_id, cert_and_sig, ec2_key) ==
    [att_obj |->
        [auth_data |->
            [rp_id_hash |-> rp_id_hash,
             flags |-> {"USER_PRESENT", "ATTESTED"},
             counter |-> 0,
             credential_data |->
                Some([aaguid |-> AAGuidDefault,
                      credential_id |-> credential_id,
                      credential_public_key |->
                         [alg |-> "ES256", kty |-> "EC2", curve |-> "SECP256R1",
                          x |-> ec2_key.x, y |-> ec2_key.y]]),
             extensions |-> AuthDataExtensionsDefault,
             raw_data |-> inp],
         att_stmt |-> [variant |-> "FidoU2F",
                       certificate |-> cert_and_sig.certificate,
                       signature |-> cert_and_sig.signature]],
     attachment |-> "Unknown",
     extensions |-> [cred_props |-> None, hmac_create_secret |-> None]]

\* the marker compared only after the public key is read
FromCtap1MagicAfterKey(inp, rp_id_hash) ==
    LET magic_num == ReadByte(inp, 0)
        public_key == ReadExact(inp, 1, PublicKeyLen)
        credential_id_len == ReadByte(inp, 1 + PublicKeyLen)
        credential_id == ReadExact(inp, 2 + PublicKeyLen, credential_id_len.byte)
        position == 2 + PublicKeyLen + credential_id_len.byte
        cert_and_sig == ParseU2fDerCertificate(SubSeq(inp, position + 1, Len(inp)))
        credential_ec2_key == FromSec1Uncompressed(public_key.bytes)
    IN  IF ~magic_num.ok THEN Deserializing("read_byte")
        ELSE IF ~public_key.ok THEN Deserializing("PublicKey")
        ELSE IF magic_num.byte # Magic THEN MagicMismatch(magic_num.byte)
        ELSE IF ~credential_id_len.ok THEN Deserializing("read_byte")
        ELSE IF ~credential_id.ok THEN Deserializing("CredentialId")
        ELSE IF ~cert_and_sig.ok THEN Deserializing("Certificate and Signature")
        ELSE IF ~credential_ec2_key.ok THEN Deserializing("EC2 Key")
        ELSE OkResult(Ctap1Result(inp, rp_id_hash, credential_id.bytes,
                                  cert_and_sig, credential_ec2_key))

\* the certificate parser started right after the length byte
FromCtap1CertAfterLength(inp, rp_id_hash) ==
    LET magic_num == ReadByte(inp, 0)
        public_key == ReadExact(inp, 1, PublicKeyLen)
        credential_id_len == ReadByte(inp, 1 + PublicKeyLen)
        credential_id == ReadExact(inp, 2 + PublicKeyLen, credential_id_len.byte)
        position == 2 + PublicKeyLen
        cert_and_sig == ParseU2fDerCertificate(SubSeq(inp, position + 1, Len(inp)))
        credential_ec2_key == FromSec1Uncompressed(public_key.bytes)
    IN  IF ~magic_num.ok THEN Deserializing("read_byte")
        ELSE IF magic_num.byte # Magic THEN MagicMismatch(magic_num.byte)
        ELSE IF ~public_key.ok THEN Deserializing("PublicKey")
        ELSE IF ~credential_id_len.ok THEN Deserializing("read_byte")
        ELSE IF ~credential_id.ok THEN Deserializing("CredentialId")
        ELSE IF ~cert_and_sig.ok THEN Deserializing("Certificate and Signature")
        ELSE IF ~credential_ec2_key.ok THEN Deserializing("EC2 Key")
        ELSE OkResult(Ctap1Result(inp, rp_id_hash, credential_id.bytes,
                                  cert_and_sig, credential_ec2_key))

\* from_ctap1(input, rp_id_hash)
FromCtap1(inp, rp_id_hash) ==
    LET magic_num == ReadByte(inp, 0)
        public_key == ReadExact(inp, 1, PublicKeyLen)
        credential_id_len == ReadByte(inp, 1 + PublicKeyLen)
        credential_id == ReadExact(inp, 2 + PublicKeyLen, credential_id_len.byte)
        position == 2 + PublicKeyLen + credential_id_len.byte
        cert_and_sig == ParseU2fDerCertificate(SubSeq(inp, position + 1, Len(inp)))
        credential_ec2_key == FromSec1Uncompressed(public_key.bytes)
    IN  IF ~magic_num.ok THEN Deserializing("read_byte")
        ELSE IF magic_num.byte # Magic THEN MagicMismatch(magic_num.byte)
        ELSE IF ~public_key.ok THEN Deserializing("PublicKey")
        ELSE IF ~credential_id_len.ok THEN Deserializing("read_byte")
        ELSE IF ~credential_id.ok THEN Deserializing("CredentialId")
        ELSE IF ~cert_and_sig.ok THEN Deserializing("Certificate and Signature")
        ELSE IF ~credential_ec2_key.ok THEN Deserializing("EC2 Key")
        ELSE OkResult(Ctap1Result(inp, rp_id_hash, credential_id.bytes,
                                  cert_and_sig, credential_ec2_key))

(***************************************************************************)
(* RequestCtap1::handle_response_ctap1.                                    *)
(***************************************************************************)
\* Result<(), ApduErrorStatus>: Ok(()) and three of the errors
ApduStatuses == {"Ok", "ConditionsNotSatisfied", "WrongData", "WrongLength"}

\* Err(Retryable::Retry)
Retry == [NoOut EXCEPT !.res = "Retry"]

\* Err(Retryable::Error(HIDError::ApduStatus(err)))
ApduStatusErr(err) == [NoOut EXCEPT !.res = "Err", !.kind = "ApduStatus", !.msg = err]

\* every error status taken as the retry signal
ApduOutcomeRetryAll(status) ==
    IF status # "Ok" THEN Retry ELSE NoOut

\* the returns on the status, before the input is looked at; NoOut when the
\* input is to be decoded
ApduOutcome(status) ==
    IF status = "ConditionsNotSatisfied" THEN Retry
    ELSE IF status # "Ok" THEN ApduStatusErr(status)
    ELSE NoOut

\* a decoded value returned without the call of finalize_result
AfterFromCtap1Return(decoded) == "done"

\* from_ctap1(..).map_err(..)?: an error returns, a value goes on to
\* finalize_result
AfterFromCtap1(decoded) ==
    IF decoded.res = "Ok" THEN "finalize_ctap1" ELSE "done"

\* entry of the handler, up to the call of from_ctap1 on a success status
ReceiveCtap1 ==
    /\ pc = "idle"
    /\ \E status \in ApduStatuses, bytes \in Ctap1Inputs :
         /\ input' = [apdu |-> status, bytes |-> bytes]
         /\ IF ApduOutcome(status) # NoOut
            THEN out' = ApduOutcome(status) /\ pc' = "done"
            ELSE out' = out /\ pc' = "from_ctap1"
    /\ UNCHANGED <<req, dev, dec, finalized>>

\* let mut output = MakeCredentialsResult::from_ctap1(input, &self.rp.hash())
\*     .map_err(|e| Retryable::Error(HIDError::Command(e)))?
DecodeCtap1 ==
    /\ pc = "from_ctap1"
    /\ out' = FromCtap1(input.bytes, RpIdHash(req.rp))
    /\ pc' = AfterFromCtap1(out')
    /\ UNCHANGED <<req, dev, input, dec, finalized>>

\* self.finalize_result(dev, &mut output); Ok(output)
FinalizeCtap1 ==
    /\ pc = "finalize_ctap1"
    /\ out' = OkResult(FinalizeResult(req, dev, out.result[1]))
    /\ finalized' = finalized + 1
    /\ pc' = "done"
    /\ UNCHANGED <<req, dev, input, dec>>

NextCtap1 ==
    \/ ReceiveCtap1
    \/ DecodeCtap1
    \/ FinalizeCtap1

\* one call of handle_response_ctap1
SpecCtap1 == InitResp /\ [][NextCtap1]_vars

\* one call of either response handler
NextHandlers ==
    \/ NextResp
    \/ NextCtap1

SpecHandlers == InitResp /\ [][NextHandlers]_vars

(***************************************************************************)
(* SpecPolicy: calls of can_skip_user_verification on a request.           *)
(***************************************************************************)
\* the requests asked: resident_key unset, false and true
PolicyRequests ==
    {New("cdh", "example.com", Some("user"), PubCredParams, << >>,
         [resident_key |-> rk, user_verification |-> None],
         [cred_props |-> None, cred_protect |-> None, hmac_secret |-> None,
          min_pin_length |-> None]) : rk \in OptBool}

InitPolicy ==
    /\ req \in PolicyRequests
    /\ out = [op |-> "new"]
    /\ dev = NoDev
    /\ input = NoInput
    /\ dec = NoDec
    /\ finalized = 0
    /\ pc = "request"

\* one call; out keeps the arguments, the request before the call and the
\* value returned
CanSkip ==
    /\ pc = "request"
    /\ \E info \in PolicyInfos, uv_req \in UvRequirements :
         LET call == CanSkipUserVerification(req, info, uv_req)
         IN  /\ req' = call.self
             /\ out' = [op |-> "can_skip_user_verification", self |-> req,
                        info |-> info, uv_req |-> uv_req, value |-> call.value]
    /\ UNCHANGED <<dev, input, dec, finalized, pc>>

NextPolicy == CanSkip

SpecPolicy == InitPolicy /\ [][NextPolicy]_vars

(***************************************************************************)
(* SpecFin: calls of finalize_result on a result, for a fixed request and  *)
(* device.  input is the result before the first call, out the result      *)
(* after the calls made so far, finalized their number.                    *)
(***************************************************************************)
\* the calls made on one result
MaxFinalize == 2

\* AuthenticatorVersion
Versions == {"U2F_V2", "FIDO_2_0", "FIDO_2_1_PRE", "FIDO_2_1"}

FinRequests ==
    {New("cdh", "example.com", Some("user"), PubCredParams, << >>,
         [resident_key |-> rk, user_verification |-> None],
         [cred_props |-> cp, cred_protect |-> None, hmac_secret |-> hs,
          min_pin_length |-> None]) : rk \in OptBool, cp \in OptBool, hs \in OptBool}

\* dev.get_authenticator_info()
FinDevices ==
    {[info |-> None]} \cup
    {[info |-> Some([platform_device |-> pd, resident_key |-> rk,
                     max_supported_version |-> v])] :
        pd \in BOOLEAN, rk \in BOOLEAN, v \in Versions}

\* the bytes of the authenticator data of the results
AuthDataBytes ==
    {"authData", "authData,hmac-secret=true", "authData,hmac-secret=false",
     "authData,hmac-secret=secret"}

\* a result as a decoder returns it
FreshResults ==
    {[att_obj |-> [auth_data |-> AuthenticatorData(b), att_stmt |-> "None"],
      attachment |-> "Unknown",
      extensions |-> [cred_props |-> None, hmac_create_secret |-> None]] :
        b \in AuthDataBytes}

\* the results finalize_result is called on: those of the decoders, and
\* those of a virtual device, which come with outputs already set
FinResults ==
    {[r EXCEPT !.attachment = a,
               !.extensions = [cred_props |-> cp, hmac_create_secret |-> hcs]] :
        r \in FreshResults, a \in {"Unknown", "Platform", "CrossPlatform"},
        cp \in {None, Some([rk |-> TRUE])}, hcs \in {None, Some(FALSE)}}

InitFin ==
    /\ req \in FinRequests
    /\ dev \in FinDevices
    /\ \E r \in FinResults : input = [result |-> r] /\ out = OkResult(r)
    /\ dec = NoDec
    /\ finalized = 0
    /\ pc = "result"

\* self.finalize_result(dev, &mut output)
FinalizeResultCall ==
    /\ pc = "result"
    /\ finalized < MaxFinalize
    /\ out' = OkResult(FinalizeResult(req, dev, out.result[1]))
    /\ finalized' = finalized + 1
    /\ UNCHANGED <<req, dev, input, dec, pc>>

NextFin == FinalizeResultCall

SpecFin == InitFin /\ [][NextFin]_vars

(***************************************************************************)
(* Properties of the encoder, checked under Spec.                          *)
(***************************************************************************)
Encoded == out.op = "wire_format"

WrittenKeys == {out.wire.entries[i].key : i \in 1..Len(out.wire.entries)}

\* the five optional groups of the request
GroupsPresent(r) ==
    <<r.exclude_list # << >>, has_content(r.extensions), has_some(r.options),
      r.pin_uv_auth_param # None, r.enterprise_attestation # None>>

\* C1: the length declared to serialize_map equals the number of
\* serialize_entry calls that follow, whichever optional groups are present.
C1_DeclaredEqualsWritten ==
    Encoded => out.wire.declared = Len(out.wire.entries)

\* C1 witness: a request with all five optional groups present is encoded
\* (ten entries declared and written).
C1_Witness ==
    /\ Encoded
    /\ GroupsPresent(req) = <<TRUE, TRUE, TRUE, TRUE, TRUE>>
    /\ out.wire.declared = 10
    /\ Len(out.wire.entries) = 10

\* whether the field written under a key is present in the request
FieldPresent(r, key) ==
    CASE key = 3 -> r.user # None
      [] key = 5 -> r.exclude_list # << >>
      [] key = 6 -> has_content(r.extensions)
      [] key = 7 -> has_some(r.options)
      [] key \in {8, 9} -> r.pin_uv_auth_param # None
      [] key = 10 -> r.enterprise_attestation # None
      [] OTHER -> TRUE

\* C2: every entry of the encoded map belongs to a field that is present in
\* the request, and none has a null value (key 3 included, when user is None).
C2_OnlyPresentFields ==
    Encoded =>
        \A i \in 1..Len(out.wire.entries) :
            /\ FieldPresent(req, out.wire.entries[i].key)
            /\ out.wire.entries[i].value # "null"

\* C3: key 5 is written iff exclude_list is non-empty, key 7 iff
\* resident_key or user_verification is set, key 10 iff
\* enterprise_attestation is present, and keys 8 and 9 are both written iff
\* pin_uv_auth_param is present and neither is written otherwise.
C3_OptionalKeys ==
    Encoded =>
        /\ (5 \in WrittenKeys) = (req.exclude_list # << >>)
        /\ (7 \in WrittenKeys) =
              (req.options.resident_key # None \/ req.options.user_verification # None)
        /\ (10 \in WrittenKeys) = (req.enterprise_attestation # None)
        /\ (8 \in WrittenKeys) = (req.pin_uv_auth_param # None)
        /\ (9 \in WrittenKeys) = (req.pin_uv_auth_param # None)

\* C3 witness: a request with a pin_uv_auth_param and only user_verification
\* set among the options is encoded with keys 7, 8 and 9 and without 5 and 10.
C3_Witness ==
    /\ Encoded
    /\ req.pin_uv_auth_param # None
    /\ req.options.resident_key = None
    /\ req.options.user_verification # None
    /\ {7, 8, 9} \subseteq WrittenKeys
    /\ WrittenKeys \cap {5, 10} = {}

(***************************************************************************)
(* Properties of the modern response decoder, checked under SpecResp.      *)
(***************************************************************************)
Done == pc = "done"

\* the response has a success status and a body: the body is decoded
Decoded == input.status # None /\ is_ok(input.status[1]) /\ input.body # None

\* the response has an error status
Refused == input.status # None /\ ~is_ok(input.status[1])

\* the entries of the response map and their keys, in wire order
InputEntries == IF input.body = None THEN << >> ELSE input.body[1].entries

KeyAt(i) == InputEntries[i][1].n

ValueAt(i) == InputEntries[i][2]

DuplicateField(key) ==
    CASE key = 1 -> "duplicate_field fmt (0x01)"
      [] key = 2 -> "duplicate_field authData (0x02)"
      [] key = 3 -> "duplicate_field attStmt (0x03)"

\* whether the visitor already holds a value for the key
Held(d, key) ==
    CASE key = 1 -> d.format # None
      [] key = 2 -> d.auth_data # None
      [] key = 3 -> d.att_stmt # None
      [] OTHER -> FALSE

\* C4 as stated: whenever key 1, 2 or 3 appears a second time in the
\* response map, the decode ends in the duplicate-field error of a repeated
\* key, for every key sequence.
C4_Original ==
    (Done /\ Decoded /\ WellFormed(input.body[1])
          /\ \E i, j \in DOMAIN InputEntries : i < j /\ KeyAt(i) = KeyAt(j) /\ KeyAt(i) \in {1, 2, 3})
    => \E i, j \in DOMAIN InputEntries :
          /\ i < j /\ KeyAt(i) = KeyAt(j) /\ KeyAt(i) \in {1, 2, 3}
          /\ out = Deserializing(DuplicateField(KeyAt(i)))

C4_Step ==
    /\ dec.format # None => dec'.format = dec.format
    /\ dec.auth_data # None => dec'.auth_data = dec.auth_data
    /\ dec.att_stmt # None => dec'.att_stmt = dec.att_stmt
    /\ (pc = "visit_map" /\ NextKey(dec).r = "Some" /\ Held(dec, NextKey(dec).key))
       => (pc' = "done" /\ out' = Deserializing(DuplicateField(NextKey(dec).key)))

\* C4 amended: whenever the decoder reads key 1, 2 or 3 while it already
\* holds a value for that key, the decode ends at once in the
\* duplicate-field error naming that field; and a value once held for fmt,
\* authData or attStmt is never replaced.
C4_DuplicateRejected == [][C4_Step]_vars

\* C4 witness: a second fmt entry was read and refused.
C4_Witness ==
    /\ Done
    /\ out = Deserializing("duplicate_field fmt (0x01)")
    /\ dec.format # None
    /\ Len(dec.read) >= 2

\* key 3 is read at position i of the keys read, no key 1 before it
AttStmtBeforeFmt(keys) ==
    \E i \in DOMAIN keys : keys[i] = 3 /\ \A j \in 1..(i - 1) : keys[j] # 1

\* C5: when the decoder reads key 3 before any key 1, the decode ends there
\* in the missing-field error for fmt; a response map whose key 3 comes
\* before any key 1 ends in a decode error whatever follows; and attStmt is
\* never held without a format.
C5_AttStmtNeedsFmt ==
    /\ AttStmtBeforeFmt(dec.read)
       => (Done /\ out = Deserializing("missing_field fmt (0x01)")
                /\ dec.read[Len(dec.read)] = 3)
    /\ (Done /\ Decoded /\ AttStmtBeforeFmt([i \in DOMAIN InputEntries |-> KeyAt(i)]))
       => (out.res = "Err" /\ out.kind = "Deserializing")
    /\ dec.att_stmt # None => dec.format # None

\* C5 witness: attStmt came first and a fmt entry follows it in the map.
C5_Witness ==
    /\ Done /\ Decoded
    /\ Len(InputEntries) >= 2
    /\ KeyAt(1) = 3
    /\ KeyAt(2) = 1
    /\ out = Deserializing("missing_field fmt (0x01)")

UnknownFormat(i) ==
    KeyAt(i) = 1 /\ ValueAt(i).t = "text"
                 /\ ValueAt(i).s \notin {"none", "packed", "fido-u2f"}

\* C6: a response map with a fmt entry whose string is not "none", "packed"
\* or "fido-u2f" ends in a decode error, with or without an attStmt entry
\* after it; the decoder never returns a result while it holds such a format.
C6_UnknownFormatFails ==
    /\ (Done /\ Decoded /\ \E i \in DOMAIN InputEntries : UnknownFormat(i))
       => (out.res = "Err" /\ out.kind = "Deserializing")
    /\ (dec.format # None /\ dec.format[1] \notin {"none", "packed", "fido-u2f"})
       => (out.res # "Ok" /\ dec.att_stmt = None)

\* C6 witness: fmt, authData and attStmt were all supplied, fmt unknown.
C6_Witness ==
    /\ Done /\ Decoded
    /\ dec.format = Some("tpm")
    /\ dec.auth_data # None
    /\ out = Deserializing("unknown attestation statement format")

\* the response without the entries whose key is not 1, 2 or 3
StripUnknown(inp) ==
    LET kept == SelectSeq(inp.body[1].entries, LAMBDA e : e[1].n \in {1, 2, 3})
    IN  [inp EXCEPT !.body =
            Some([len |-> inp.body[1].len - (Len(inp.body[1].entries) - Len(kept)),
                  entries |-> kept])]

\* C7: the outcome for a response map is the outcome for the same map
\* without its entries under keys other than 1, 2 and 3.
C7_UnknownKeysIgnored ==
    (Done /\ Decoded /\ WellFormed(input.body[1]))
    => out = HandleResponseCtap2Of(req, dev, StripUnknown(input))

\* C8: a result is returned only for a response map that has an authData
\* entry, an attStmt entry and a fmt entry before the attStmt entry, and it
\* holds the values decoded from them; when the map ends with authData or
\* attStmt missing the outcome is a decode error that carries no result.
C8_RequiredFields ==
    /\ out.res = "Ok"
       => /\ \E i, j, k \in DOMAIN InputEntries :
                KeyAt(i) = 1 /\ KeyAt(j) = 2 /\ KeyAt(k) = 3 /\ i < k
          /\ dec.auth_data # None /\ dec.att_stmt # None
          /\ out.result # None
          /\ out.result[1].att_obj =
                [auth_data |-> dec.auth_data[1], att_stmt |-> dec.att_stmt[1]]
    /\ (Done /\ Decoded /\ (dec.auth_data = None \/ dec.att_stmt = None))
       => (out.res = "Err" /\ out.kind = "Deserializing" /\ out.result = None)

\* C8 witness: the map was read to its end with fmt and authData but no
\* attStmt.
C8_Witness ==
    /\ Done /\ Decoded
    /\ dec.format # None /\ dec.auth_data # None /\ dec.att_stmt = None
    /\ out = Deserializing("found no attStmt (0x03)")

\* C9: with fmt "none" the result holds AttestationStatement::None only if
\* the attStmt value is the empty map; an attStmt map with at least one
\* entry read under fmt "none" is a decode error.
C9_NoneNeedsEmptyMap ==
    /\ (out.res = "Ok" /\ out.result[1].att_obj.att_stmt = "None")
       => /\ dec.format = Some("none")
          /\ \A i \in DOMAIN InputEntries :
                KeyAt(i) = 3 => ValueAt(i) = MapItem(0, "empty")
    /\ (Done /\ Decoded /\ dec.format = Some("none")
             /\ \E i \in DOMAIN InputEntries :
                   KeyAt(i) = 3 /\ ValueAt(i).t = "map" /\ ValueAt(i).n > 0)
       => (out.res = "Err" /\ out.kind = "Deserializing")

\* C9 witness: fmt "none" and the attStmt {null: null}, refused as not the
\* empty map.
C9_Witness ==
    /\ Done /\ Decoded
    /\ dec.format = Some("none")
    /\ out = Deserializing("invalid_value: the empty map")

\* C10 as stated: every response with an error status gives a StatusCode
\* error with that status, without data when nothing follows the status
\* byte and with the decoded value when a body follows.
C10_Original ==
    (Done /\ Refused)
    => /\ out.res = "Err" /\ out.kind = "StatusCode"
       /\ out.status = input.status
       /\ out.data = input.body

\* C10 amended: a response with an error status gives StatusCode(status,
\* None) when nothing follows the status byte and StatusCode(status,
\* Some(value)) when the bytes that follow decode as a CBOR value; when they
\* do not decode, the outcome is a Deserializing error and carries no status.
C10_StatusCodeReported ==
    (Done /\ Refused)
    => /\ out.res = "Err"
       /\ (input.body = None \/ WellFormed(input.body[1]))
          => (out.kind = "StatusCode" /\ out.status = input.status
                                      /\ out.data = input.body)
       /\ (input.body # None /\ ~WellFormed(input.body[1]))
          => (out.kind = "Deserializing" /\ out.status = None)

\* C10 witness: an error status followed by a map of one entry.
C10_Witness ==
    /\ Done /\ Refused
    /\ input.body # None
    /\ WellFormed(input.body[1])
    /\ Len(InputEntries) = 1
    /\ out = StatusCodeErr(input.status[1], input.body)

\* C11: a response with no body never gives a result: the empty input and
\* the input of only a success status byte fail with InputTooSmall, the
\* input of only a non-success status byte fails with StatusCode(status,
\* None).
C11_NoBodyNoResult ==
    (Done /\ input.body = None)
    => /\ out.res = "Err"
       /\ finalized = 0
       /\ input.status = None => out = InputTooSmall
       /\ (input.status # None /\ is_ok(input.status[1])) => out = InputTooSmall
       /\ (input.status # None /\ ~is_ok(input.status[1]))
          => (out.kind = "StatusCode" /\ out.status = input.status
                                      /\ out.data = None)

\* C11 witness: the input of only a success status byte, refused.
C11_Witness ==
    /\ Done
    /\ input.status = Some(0)
    /\ input.body = None
    /\ out = InputTooSmall

(***************************************************************************)
(* Properties of the two response handlers, checked under SpecHandlers,    *)
(* and of the legacy decoder, checked under SpecCtap1.                     *)
(***************************************************************************)
\* the call is one of handle_response_ctap1
Ctap1Call == "apdu" \in DOMAIN input

\* from_ctap1 has returned
Ctap1Decoded == Ctap1Call /\ input.apdu = "Ok" /\ pc # "from_ctap1"

\* C12: handle_response_ctap1 gives the retry signal iff the APDU status is
\* ConditionsNotSatisfied, whatever the input bytes, which are not parsed;
\* every other non-success status gives the fatal ApduStatus error of that
\* status; a decode failure on a success status gives a fatal command
\* error; handle_response_ctap2 never gives the retry signal.
C12_RetryOnlyOnConditionsNotSatisfied ==
    /\ (out.res = "Retry")
          <=> (Ctap1Call /\ input.apdu = "ConditionsNotSatisfied")
    /\ (Ctap1Call /\ input.apdu # "Ok") => (pc = "done" /\ finalized = 0)
    /\ (Ctap1Call /\ input.apdu \notin {"Ok", "ConditionsNotSatisfied"})
          => out = ApduStatusErr(input.apdu)
    /\ (Done /\ Ctap1Call /\ input.apdu = "Ok"
             /\ FromCtap1(input.bytes, RpIdHash(req.rp)).res # "Ok")
          => (out.res = "Err" /\ out.kind = "Deserializing")

\* C12 witness: the status ConditionsNotSatisfied came with the bytes of a
\* registration response that decodes, and the handler gave the retry signal.
C12_Witness ==
    /\ Done /\ Ctap1Call
    /\ input.apdu = "ConditionsNotSatisfied"
    /\ FromCtap1(input.bytes, RpIdHash(req.rp)).res = "Ok"
    /\ out = Retry

\* the value the decoder of the call returns for the input
DecodedValue ==
    IF Ctap1Call THEN FromCtap1(input.bytes, RpIdHash(req.rp))
    ELSE VisitMap(StartDec(input.body[1]))

\* C13: in both handlers finalize_result runs exactly once for a response
\* that decodes, after the decoding and before the return, and not at all
\* on a path that returns an error or the retry signal.
C13_FinalizedOncePerResult ==
    /\ finalized \in {0, 1}
    /\ pc # "done" => finalized = 0
    /\ pc \in {"finalize", "finalize_ctap1"} => out = DecodedValue
    /\ Done => ((finalized = 1) <=> (out.res = "Ok"))
    /\ (Done /\ out.res = "Ok")
          => /\ DecodedValue.res = "Ok"
             /\ out.result[1] = FinalizeResult(req, dev, DecodedValue.result[1])

\* C13 witness: a registration response was decoded by the legacy handler
\* and returned after one run of finalize_result, which set the attachment.
C13_Witness ==
    /\ Done /\ Ctap1Call
    /\ out.res = "Ok"
    /\ finalized = 1
    /\ out.result[1].attachment = "Platform"

\* C19: from_ctap1 fails with the Deserializing error that names the
\* received byte for every input whose first byte is not 0x05, whatever its
\* length, and with a Deserializing error on the empty input.
C19_MagicByteChecked ==
    Ctap1Decoded =>
        /\ (input.bytes # << >> /\ input.bytes[1] # 5)
              => /\ out.res = "Err" /\ out.kind = "Deserializing"
                 /\ out.msg = "invalid_value: integer " \o ToString(input.bytes[1])
                                 \o ", expected 0x05"
        /\ input.bytes = << >> => (out.res = "Err" /\ out.kind = "Deserializing")

\* C19 witness: an input of the single byte 4 was refused with the error
\* that names 4.
C19_Witness ==
    /\ Ctap1Decoded
    /\ input.bytes = <<4>>
    /\ out = MagicMismatch(4)

\* C20: every result from_ctap1 returns has the flags USER_PRESENT and
\* ATTESTED and no other, counter 0, an all-zero AAGUID, empty extensions,
\* the whole input as raw_data, the hash passed in as rp_id_hash, a FidoU2F
\* attestation statement, attachment Unknown and default extension outputs.
C20_FixedFields ==
    (Ctap1Call /\ pc = "finalize_ctap1") =>
        LET result == out.result[1]
            auth_data == result.att_obj.auth_data
        IN  /\ auth_data.flags = {"USER_PRESENT", "ATTESTED"}
            /\ auth_data.counter = 0
            /\ auth_data.credential_data # None
            /\ auth_data.credential_data[1].aaguid = [i \in 1..16 |-> 0]
            /\ \A e \in DOMAIN auth_data.extensions : auth_data.extensions[e] = None
            /\ auth_data.raw_data = input.bytes
            /\ auth_data.rp_id_hash = RpIdHash(req.rp)
            /\ result.att_obj.att_stmt.variant = "FidoU2F"
            /\ result.attachment = "Unknown"
            /\ result.extensions = [cred_props |-> None, hmac_create_secret |-> None]

\* C20 witness: from_ctap1 returned a result for a registration response
\* with a credential id of two bytes and a signature of two bytes.
C20_Witness ==
    /\ Ctap1Call /\ pc = "finalize_ctap1"
    /\ out.res = "Ok"
    /\ Len(out.result[1].att_obj.auth_data.credential_data[1].credential_id) = 2
    /\ Len(out.result[1].att_obj.att_stmt.signature) = 2
    /\ Len(input.bytes) = PublicKeyLen + 10

(***************************************************************************)
(* Properties of can_skip_user_verification, checked under SpecPolicy.     *)
(***************************************************************************)
\* C15: can_skip_user_verification returns the value of the decision
\* table: false if always_uv is Some(true); otherwise true if the device has
\* neither user verification nor a PIN configured; otherwise true iff
\* make_cred_uv_not_rqd is Some(true), resident_key is not Some(true) and
\* the requirement is Discouraged.  The request is left as it was.
C15_DecisionTable ==
    out.op = "can_skip_user_verification" =>
        LET o == out.info.options
            table ==
                IF o.always_uv = Some(TRUE) THEN FALSE
                ELSE IF o.user_verification # Some(TRUE) /\ o.client_pin # Some(TRUE)
                     THEN TRUE
                ELSE /\ o.make_cred_uv_not_rqd = Some(TRUE)
                     /\ out.self.options.resident_key # Some(TRUE)
                     /\ out.uv_req = "Discouraged"
        IN  /\ out.value = table
            /\ req = out.self

\* C15 witness: a device with a PIN and always_uv, asked with Discouraged
\* for a request without a resident key, that also says make_cred_uv_not_rqd:
\* the value is false.
C15_Witness ==
    /\ out.op = "can_skip_user_verification"
    /\ out.info.options = [user_verification |-> None, client_pin |-> Some(TRUE),
                           make_cred_uv_not_rqd |-> Some(TRUE),
                           always_uv |-> Some(TRUE)]
    /\ out.uv_req = "Discouraged"
    /\ req.options.resident_key = None
    /\ out.value = FALSE

(***************************************************************************)
(* Properties of finalize_result, checked under SpecFin.                   *)
(***************************************************************************)
\* the result was as a decoder returns it before the first call
Fresh == input.result \in FreshResults

\* the result after the calls made so far
Result == out.result[1]

\* C14: after finalize_result on a freshly decoded result the cred_props
\* output is present iff the request has extensions.cred_props = Some(true)
\* and the case is not uncertain (maximum version FIDO_2_0, device declares
\* resident keys, request did not ask for one); when present its rk is the
\* requested resident-key value; without capability info the case is never
\* uncertain.
C14_CredProps ==
    (finalized = 1 /\ Fresh) =>
        LET asked == req.options.resident_key = Some(TRUE)
            uncertain == /\ dev.info # None
                         /\ dev.info[1].max_supported_version = "FIDO_2_0"
                         /\ dev.info[1].resident_key
                         /\ ~asked
            cred_props == Result.extensions.cred_props
        IN  /\ (cred_props # None)
                  <=> (req.extensions.cred_props = Some(TRUE) /\ ~uncertain)
            /\ cred_props # None => cred_props[1].rk = asked

\* C14 witness: the uncertain case, with cred_props requested: the output
\* is absent.
C14_Witness ==
    /\ finalized = 1 /\ Fresh
    /\ req.extensions.cred_props = Some(TRUE)
    /\ req.options.resident_key = Some(FALSE)
    /\ dev.info # None
    /\ dev.info[1].max_supported_version = "FIDO_2_0"
    /\ dev.info[1].resident_key
    /\ Result.extensions.cred_props = None

\* C16: after finalize_result the attachment is Platform iff there is
\* capability info and it says platform_device, CrossPlatform iff there is
\* capability info and it says otherwise, Unknown iff there is none,
\* whatever the result held before.
C16_Attachment ==
    finalized >= 1 =>
        /\ (Result.attachment = "Platform")
              <=> (dev.info # None /\ dev.info[1].platform_device)
        /\ (Result.attachment = "CrossPlatform")
              <=> (dev.info # None /\ ~dev.info[1].platform_device)
        /\ (Result.attachment = "Unknown") <=> (dev.info = None)

\* C16 witness: a result that came with attachment Platform was finalized
\* without capability info and is Unknown.
C16_Witness ==
    /\ finalized = 1
    /\ input.result.attachment = "Platform"
    /\ dev.info = None
    /\ Result.attachment = "Unknown"

\* C17: after finalize_result on a freshly decoded result the
\* hmac_create_secret output is set iff the request has
\* extensions.hmac_secret = Some(true) and the authenticator data's
\* hmac_secret is a Confirmed(flag), and it is then that flag.
C17_HmacCreateSecret ==
    (finalized = 1 /\ Fresh) =>
        LET hmac_secret == input.result.att_obj.auth_data.extensions.hmac_secret
            confirmed == hmac_secret # None /\ hmac_secret[1].confirmed
            output == Result.extensions.hmac_create_secret
        IN  /\ (output # None)
                  <=> (req.extensions.hmac_secret = Some(TRUE) /\ confirmed)
            /\ output # None => output[1] = hmac_secret[1].flag

\* C17 witness: hmac_secret was requested and the authenticator data
\* confirms it with the flag false: the output is Some(false).
C17_Witness ==
    /\ finalized = 1 /\ Fresh
    /\ req.extensions.hmac_secret = Some(TRUE)
    /\ input.result.att_obj.auth_data.raw_data = "authData,hmac-secret=false"
    /\ Result.extensions.hmac_create_secret = Some(FALSE)

\* the resident-key case of the request and the device is not ambiguous
Unambiguous ==
    ~(/\ dev.info # None
      /\ dev.info[1].max_supported_version = "FIDO_2_0"
      /\ dev.info[1].resident_key
      /\ req.options.resident_key # Some(TRUE))

\* C18: for a fixed request and capability snapshot with no ambiguous
\* resident-key case, two calls of finalize_result leave the attachment and
\* the extension outputs one call leaves.
C18_Idempotent ==
    (finalized = 2 /\ Unambiguous) =>
        LET once == FinalizeResult(req, dev, input.result)
        IN  /\ Result.attachment = once.attachment
            /\ Result.extensions = once.extensions

\* C18 witness: two calls on a result that came with a cred_props output,
\* for a request that asks for cred_props and a resident key.
C18_Witness ==
    /\ finalized = 2 /\ Unambiguous
    /\ req.extensions.cred_props = Some(TRUE)
    /\ req.options.resident_key = Some(TRUE)
    /\ input.result.extensions.cred_props # None
    /\ Result.extensions.cred_props = Some([rk |-> TRUE])

(***************************************************************************)
(* Properties of set_pin_uv_auth_param, checked under Spec.                *)
(***************************************************************************)
\* the step is a call of set_pin_uv_auth_param
PinCall == out'.op = "set_pin_uv_auth_param"

C21_Step ==
    PinCall =>
        LET token == out'.token
        IN  /\ token = None
               => (out'.res = "Ok" /\ req'.pin_uv_auth_param = None)
            /\ (token # None /\ token[1].ok)
               => /\ out'.res = "Ok"
                  /\ req'.pin_uv_auth_param =
                        Some([pin_auth |-> <<token[1].key, req.client_data_hash>>,
                              pin_protocol |-> token[1].protocol])
            /\ (token # None /\ ~token[1].ok) => out'.res = "Crypto"

\* C21: set_pin_uv_auth_param with a token sets pin_uv_auth_param to the tag
\* derived from that token over the request's client_data_hash, with None it
\* clears pin_uv_auth_param, and when the derivation fails it returns a
\* Crypto error instead of Ok.
C21_TagDerivedOrCleared == [][C21_Step]_vars

\* C21 witness: a call with a token of protocol 2 returned Ok and the
\* request holds the tag of that token over its client_data_hash.
C21_Witness ==
    /\ out.op = "set_pin_uv_auth_param"
    /\ out.res = "Ok"
    /\ out.token = Some([protocol |-> 2, key |-> "k2", ok |-> TRUE])
    /\ req.pin_uv_auth_param =
          Some([pin_auth |-> <<"k2", req.client_data_hash>>, pin_protocol |-> 2])

C27_Step ==
    (PinCall /\ out'.res = "Crypto") => req' = req

\* C27: when set_pin_uv_auth_param fails because the derivation fails, the
\* request is left as it was: pin_uv_auth_param keeps its value and so do
\* all other fields.
C27_FailureLeavesRequest == [][C27_Step]_vars

\* C27 witness: the call failed on a request that holds a tag of an earlier
\* call.
C27_Witness ==
    /\ out.op = "set_pin_uv_auth_param"
    /\ out.res = "Crypto"
    /\ req.pin_uv_auth_param # None

(***************************************************************************)
(* Further properties of the encoder, checked under Spec.                  *)
(***************************************************************************)
\* the key each field of the request is written under
KeyOfField ==
    [client_data_hash |-> 1, rp |-> 2, user |-> 3, pub_cred_params |-> 4,
     exclude_list |-> 5, extensions |-> 6, options |-> 7,
     pin_uv_auth_param |-> 8, pin_protocol |-> 9, enterprise_attestation |-> 10]

\* C24: the encoder writes each field under its fixed key (hash 1, relying
\* party 2, user 3, algorithms 4, exclusion list 5, extensions 6, options 7,
\* tag 8, tag version 9, enterprise attestation 10), in strictly ascending
\* key order, each key at most once.
C24_FixedAscendingKeys ==
    Encoded =>
        LET e == out.wire.entries
        IN  /\ \A i \in 1..Len(e) :
                  /\ e[i].key \in 1..10
                  /\ IF e[i].value = "null" THEN e[i].key = KeyOfField.user
                     ELSE /\ e[i].value \in DOMAIN KeyOfField
                          /\ e[i].key = KeyOfField[e[i].value]
            /\ \A i, j \in 1..Len(e) : i < j => e[i].key < e[j].key

\* C24 witness: a request with every optional group is encoded, its ten
\* entries under the keys 1 to 10.
C24_Witness ==
    /\ Encoded
    /\ Len(out.wire.entries) = 10
    /\ \A k \in 1..10 : out.wire.entries[k].key = k
    /\ out.wire.entries[6].members # {}

\* the request's only extension input, if any, is cred_props
OnlyCredProps(r) ==
    /\ r.extensions.cred_protect = None
    /\ r.extensions.hmac_secret = None
    /\ r.extensions.min_pin_length = None

\* C25: key 6 is written exactly when one of cred_protect, hmac_secret and
\* min_pin_length is set; the extension map written is never empty; a
\* request whose only extension input is cred_props writes no key 6 and
\* counts no entry for it.
C25_ExtensionsKey ==
    Encoded =>
        LET e == out.wire.entries
        IN  /\ (6 \in WrittenKeys) <=> ~OnlyCredProps(req)
            /\ \A i \in 1..Len(e) : e[i].key = 6 => e[i].members # {}
            /\ OnlyCredProps(req)
                  => out.wire.declared = Cardinality(WrittenKeys \ {6})

\* C25 witness: a request with cred_props = Some(true) and no other
\* extension input is encoded without key 6.
C25_Witness ==
    /\ Encoded
    /\ req.extensions.cred_props = Some(TRUE)
    /\ OnlyCredProps(req)
    /\ 6 \notin WrittenKeys
    /\ out.wire.declared = Len(out.wire.entries)

(***************************************************************************)
(* The layout from_ctap1 reads, checked under SpecCtap1.                   *)
(***************************************************************************)
\* the bytes of the input from offset lo (counted from 0) to its end
FromOffset(lo) == SubSeq(input.bytes, lo + 1, Len(input.bytes))

\* C26: for an input that starts with 0x05, from_ctap1 takes as credential
\* id the N bytes after the length byte at offset 66, N being that byte, and
\* hands the bytes from offset 67+N on to the certificate parser; an input
\* that ends before the public key, the length byte or the N bytes are
\* complete fails with a Deserializing error and gives no result.
C26_CredentialIdLayout ==
    (Ctap1Decoded /\ input.bytes # << >> /\ input.bytes[1] = 5) =>
        LET len == Len(input.bytes)
            N == input.bytes[67]
            complete == len >= 67 /\ len >= 67 + N
        IN  /\ ~complete => (out.res = "Err" /\ out.kind = "Deserializing"
                                             /\ out.result = None)
            /\ complete =>
                  (out.msg = "Certificate and Signature")
                     <=> ~ParseU2fDerCertificate(FromOffset(67 + N)).ok
            /\ out.res = "Ok" =>
                  LET auth_data == out.result[1].att_obj.auth_data
                      att_stmt == out.result[1].att_obj.att_stmt
                  IN  /\ complete
                      /\ auth_data.credential_data[1].credential_id
                            = SubSeq(input.bytes, 68, 67 + N)
                      /\ att_stmt.certificate \o att_stmt.signature
                            = FromOffset(67 + N)

\* C26 witness: a response with a length byte of 1 was decoded: the
\* credential id is the byte at offset 67 and the certificate starts at
\* offset 68.
C26_Witness ==
    /\ Ctap1Decoded
    /\ out.res = "Ok"
    /\ input.bytes[67] = 1
    /\ out.result[1].att_obj.auth_data.credential_data[1].credential_id
          = <<input.bytes[68]>>
    /\ out.result[1].att_obj.att_stmt.certificate = SubSeq(input.bytes, 69, 72)
    /\ out.result[1].att_obj.att_stmt.signature = <<71, 72>>

(***************************************************************************)
(* Properties of ctap1_format, checked under Spec.                         *)
(***************************************************************************)
Formatted == out.op = "ctap1_format"

\* C22: ctap1_format gives a register APDU whose flags byte is the
\* user-presence value and whose data is the 32 bytes of the client data
\* hash followed by the 32 bytes of the hash of the rp id (Lc = 0x40),
\* between the class/instruction header and two bytes of response length:
\* 73 bytes.
C22_RegisterApdu ==
    Formatted =>
        /\ out.res = "Ok"
        /\ Len(out.apdu) = 73
        /\ SubSeq(out.apdu, 1, 4) = <<0, 1, 3, 0>>
        /\ SubSeq(out.apdu, 5, 7) = <<0, 0, 64>>
        /\ SubSeq(out.apdu, 8, 39) = ClientDataHashBytes(req.client_data_hash)
        /\ SubSeq(out.apdu, 40, 71) = RpIdHashBytes(req.rp)
        /\ SubSeq(out.apdu, 72, 73) = <<0, 0>>

\* C22 witness: the request of the reference test (a user, two algorithms,
\* resident_key = Some(true)) is formatted and the data starts with the
\* client data hash.
C22_Witness ==
    /\ Formatted
    /\ req.user # None
    /\ req.options = [resident_key |-> Some(TRUE), user_verification |-> None]
    /\ req.exclude_list = << >>
    /\ out.apdu[8] = 117 /\ out.apdu[40] = 163

\* the request of the same client data hash and rp id with nothing else
Bare(r) ==
    New(r.client_data_hash, r.rp, None, << >>, << >>,
        [resident_key |-> None, user_verification |-> None],
        [cred_props |-> None, cred_protect |-> None, hmac_secret |-> None,
         min_pin_length |-> None])

\* C23: the legacy encoding depends on the client data hash and the rp id
\* only: every request gives the output of the request that has the same
\* two fields and nothing else, hence two requests that agree on the two
\* fields give the same output, and ctap1_format does not fail, whatever the
\* user, algorithms, exclusion list, extensions, options, pin_uv_auth_param
\* and enterprise_attestation are.
C23_LegacyIgnoresOtherFields ==
    Formatted =>
        /\ out.res = "Ok"
        /\ out.res = Ctap1Format(Bare(req)).res
        /\ out.apdu = Ctap1Format(Bare(req)).apdu

\* C23 witness: a request with an exclusion list, extensions, options, a
\* tag and an enterprise attestation is formatted.
C23_Witness ==
    /\ Formatted
    /\ out.res = "Ok"
    /\ GroupsPresent(req) = <<TRUE, TRUE, TRUE, TRUE, TRUE>>
    /\ req # Bare(req)

====
